---- MODULE Spec2Model ----
(***************************************************************************)
(* Model of hum/gen/sine_mix.py: mk_sine_wf (one sine waveform) and        *)
(* freq_based_stationary_wf (a normalised weighted mix of sine waveforms). *)
(*                                                                         *)
(* Numbers.  A sample is a pair <<num, den>>: den > 0 is the rational      *)
(* num/den in lowest terms; den = 0 is a non-finite numpy value, <<1,0>>   *)
(* = inf, <<-1,0>> = -inf, <<0,0>> = nan.  Arithmetic on samples is exact; *)
(* the rounding of float64 is not modelled.  Angles are integers counting  *)
(* units of pi/6 radians, so pi is 6 and sin is the table of the sine at   *)
(* the twelve multiples of pi/6 (to three decimals).  The sample rates of  *)
(* the model divide 2*pi, which keeps the division by sr exact.  Gains and *)
(* weights are integers.                                                   *)
(***************************************************************************)
EXTENDS Integers, Sequences, FiniteSets

VARIABLES op, args, outcome

vars == <<op, args, outcome>>

\* ---- bounds of the model
MaxSamples == 2
MaxFreq == 2
MaxMix == 2
MaxWeight == 2
MaxGain == 2
MaxPhase == 3

SampleCounts == -1..MaxSamples
Freqs == 1..MaxFreq
SampleRates == {6, 12}
Phases == 0..MaxPhase
Gains == -1..MaxGain
WeightValues == -1..MaxWeight

RECURSIVE SeqsUpTo(_, _)
SeqsUpTo(S, n) ==
  IF n = 0 THEN {<<>>}
  ELSE LET shorter == SeqsUpTo(S, n - 1)
       IN shorter \cup {Append(s, x) : s \in {t \in shorter : Len(t) = n - 1}, x \in S}

FreqLists == SeqsUpTo(Freqs, MaxMix)
WeightLists == SeqsUpTo(WeightValues, MaxMix + 1)

\* ---- exact arithmetic on samples
Abs(x) == IF x < 0 THEN -x ELSE x
Sign(x) == IF x < 0 THEN -1 ELSE IF x = 0 THEN 0 ELSE 1

RECURSIVE GCD(_, _)
GCD(a, b) == IF b = 0 THEN a ELSE GCD(b, a % b)

\* num/den in lowest terms with a positive denominator; x/0 is inf, -inf or nan
Ratio(num, den) ==
  IF den = 0 THEN <<Sign(num), 0>>
  ELSE LET g == GCD(Abs(num), Abs(den))
       IN <<(Sign(den) * num) \div g, Abs(den) \div g>>

FromInt(k) == <<k, 1>>
RAdd(x, y) == Ratio(x[1] * y[2] + y[1] * x[2], x[2] * y[2])
RMul(x, y) == Ratio(x[1] * y[1], x[2] * y[2])
RDivInt(x, k) == Ratio(x[1], x[2] * k)
IsFinite(x) == x[2] > 0

\* ---- numpy
pi == 6

sinTable ==
  << <<0, 1>>, <<1, 2>>, <<433, 500>>, <<1, 1>>, <<433, 500>>, <<1, 2>>,
     <<0, 1>>, <<-1, 2>>, <<-433, 500>>, <<-1, 1>>, <<-433, 500>>, <<-1, 2>> >>

sin(x) == sinTable[(x % (2 * pi)) + 1]

\* mutants of arange: 0..n inclusive; the count taken by absolute value
arange_inclusive(n) == IF n < 0 THEN <<>> ELSE [j \in 1..(n + 1) |-> j - 1]
arange_abs(n) == [j \in 1..Abs(n) |-> j - 1]

\* arange(n): 0, 1, ..., n-1; empty when n <= 0
arange(n) == IF n <= 0 THEN <<>> ELSE [j \in 1..n |-> j - 1]

\* mutant of ones: an array of zeros
zeros(n) == [i \in 1..n |-> 0]

ones(n) == [i \in 1..n |-> 1]

\* mutant of sum: the number of elements instead of their total
sum_count(s) == Len(s)

\* builtin sum over a list of numbers
RECURSIVE sum(_)
sum(s) == IF Len(s) = 0 THEN 0 ELSE s[1] + sum(Tail(s))

\* mutant of mk_sine_wf: the gain added to the sine instead of multiplying it
mk_sine_wf_gain_added(freq, n_samples, sr, phase, gain) ==
  LET idx == arange(n_samples)
  IN [j \in 1..Len(idx) |->
        RAdd(FromInt(gain), sin(phase + (idx[j] * 2 * pi * freq) \div sr))]

\* ---- mk_sine_wf: gain * sin(phase + arange(n_samples) * 2 * pi * freq / sr)
mk_sine_wf(freq, n_samples, sr, phase, gain) ==
  LET idx == arange(n_samples)
  IN [j \in 1..Len(idx) |->
        RMul(FromInt(gain), sin(phase + (idx[j] * 2 * pi * freq) \div sr))]

\* ---- freq_based_stationary_wf
\* partial(mk_sine_wf, n_samples=n_samples, sr=sr): phase and gain keep their defaults
mk_sine_wf_partial(freq, n_samples, sr) == mk_sine_wf(freq, n_samples, sr, 0, 1)

\* weights is a record [given, w]; given = FALSE is weights=None
EffectiveWeights(freqs, weights) ==
  IF weights.given THEN weights.w ELSE ones(Len(freqs))

\* mutants of the length check: only too few weights rejected; a zero total rejected
LengthCheck_at_least(freqs, w) == Len(freqs) <= Len(w)
LengthCheck_reject_zero(freqs, w) == Len(freqs) = Len(w) /\ sum(w) # 0

\* assert len(freqs) == len(weights)
LengthCheck(freqs, w) == Len(freqs) = Len(w)

\* mutant of Scaled: the weight is not applied
Scaled_dropped(wf, k) == wf

\* array * scalar
Scaled(wf, k) == [j \in 1..Len(wf) |-> RMul(wf[j], FromInt(k))]

\* builtin sum over the weighted waveforms: 0 + t_1 + t_2 + ... left to right,
\* the scalar start 0 broadcast over the first array
RECURSIVE WeightedSum(_, _, _, _, _)
WeightedSum(freqs, w, n_samples, sr, k) ==
  LET term == Scaled(mk_sine_wf_partial(freqs[k], n_samples, sr), w[k])
      acc == IF k = 1 THEN [j \in 1..Len(term) |-> FromInt(0)]
             ELSE WeightedSum(freqs, w, n_samples, sr, k - 1)
  IN [j \in 1..Len(term) |-> RAdd(acc[j], term[j])]

\* mutant of Normalized: the sum is returned without the division
Unnormalized(wf, total) == wf

\* wf / sum(weights)
Normalized(wf, total) == [j \in 1..Len(wf) |-> RDivInt(wf[j], total)]

freq_based_stationary_wf(freqs, weights, n_samples, sr) ==
  LET w == EffectiveWeights(freqs, weights)
  IN IF ~LengthCheck(freqs, w)
       THEN [kind |-> "AssertionError", wf |-> <<>>, nsines |-> 0]
     ELSE IF Len(freqs) = 0
       \* sum(()) is the int 0 and sum(weights) is 0: int / int raises
       THEN [kind |-> "ZeroDivisionError", wf |-> <<>>, nsines |-> 0]
     ELSE [kind |-> "ok",
           wf |-> Normalized(WeightedSum(freqs, w, n_samples, sr, Len(freqs)), sum(w)),
           nsines |-> Len(freqs)]

\* ---- the state machine: a caller invoking the two functions one call at a
\* time; op names the call whose result the caller holds, "none" when it holds
\* no result
Init ==
  /\ op = "none"
  /\ args = [n_samples |-> 0]
  /\ outcome = [kind |-> "none", wf |-> <<>>, nsines |-> 0]

Generate ==
  /\ op = "none"
  /\ \E freq \in Freqs, n \in SampleCounts, sr \in SampleRates, phase \in Phases, gain \in Gains :
    /\ op' = "generate"
    /\ args' = [freq |-> freq, n_samples |-> n, sr |-> sr, phase |-> phase, gain |-> gain]
    /\ outcome' = [kind |-> "ok", wf |-> mk_sine_wf(freq, n, sr, phase, gain), nsines |-> 1]

GenerateMix ==
  /\ op = "none"
  /\ \E freqs \in FreqLists, given \in BOOLEAN, w \in WeightLists,
        n \in SampleCounts, sr \in SampleRates :
    /\ given \/ w = <<>>
    /\ op' = "generateMix"
    /\ args' = [freqs |-> freqs, weights |-> [given |-> given, w |-> w],
                n_samples |-> n, sr |-> sr]
    /\ outcome' = freq_based_stationary_wf(freqs, [given |-> given, w |-> w], n, sr)

\* the caller drops the result: nothing of a call outlives it
Release ==
  /\ op # "none"
  /\ op' = "none"
  /\ args' = [n_samples |-> 0]
  /\ outcome' = [kind |-> "none", wf |-> <<>>, nsines |-> 0]

Next == Generate \/ GenerateMix \/ Release

Spec == Init /\ [][Next]_vars

\* ---- properties
MaxScale == 3
Scales == 2..MaxScale

IsMix == op = "generateMix"
IsGenerate == op = "generate"
\* the precondition of generateMix: weights absent or as many as the frequencies
WeightsFit == ~args.weights.given \/ Len(args.weights.w) = Len(args.freqs)
SuppliedFit == args.weights.given /\ Len(args.weights.w) = Len(args.freqs)

\* sample j (1-based) of the sine wave of the i-th frequency, gain 1 and phase 0
Wave(i, j) == mk_sine_wf(args.freqs[i], args.n_samples, args.sr, 0, 1)[j]

\* sum over i <= k of weights[i] * w_i[j]
RECURSIVE WeightedTotal(_, _)
WeightedTotal(k, j) ==
  IF k = 0 THEN FromInt(0)
  ELSE RAdd(WeightedTotal(k - 1, j), RMul(FromInt(args.weights.w[k]), Wave(k, j)))

\* sum over i <= k of w_i[j]
RECURSIVE PlainTotal(_, _)
PlainTotal(k, j) ==
  IF k = 0 THEN FromInt(0) ELSE RAdd(PlainTotal(k - 1, j), Wave(k, j))

AllWeightsEqual == \A i \in 1..Len(args.weights.w) : args.weights.w[i] = args.weights.w[1]

\* C1: for sampleCount >= 0 both operations return a waveform of exactly
\* sampleCount samples (generateMix: non-empty frequencies, weights absent or
\* of the same length); sampleCount = 0 gives an empty waveform, not an error
C1_LengthIsSampleCount ==
  /\ (IsGenerate /\ args.n_samples >= 0)
       => (outcome.kind = "ok" /\ Len(outcome.wf) = args.n_samples)
  /\ (IsMix /\ args.n_samples >= 0 /\ Len(args.freqs) > 0 /\ WeightsFit)
       => (outcome.kind = "ok" /\ Len(outcome.wf) = args.n_samples)

C1_Witness ==
  /\ IsMix /\ args.n_samples = 0 /\ Len(args.freqs) = 2 /\ SuppliedFit
  /\ outcome.kind = "ok" /\ outcome.wf = <<>>

\* C2: supplied weights of another length than frequencies fail with an error
\* before any sine wave is generated, and no waveform is returned
C2_LengthMismatchFails ==
  (IsMix /\ args.weights.given /\ Len(args.weights.w) # Len(args.freqs))
    => (outcome.kind = "AssertionError" /\ outcome.nsines = 0 /\ outcome.wf = <<>>)

C2_Witness ==
  /\ IsMix /\ args.weights.given /\ Len(args.weights.w) > Len(args.freqs)
  /\ Len(args.freqs) > 0 /\ args.n_samples > 0
  /\ outcome.kind = "AssertionError"

\* C3 as stated: a negative sampleCount raises an error in both operations and
\* no waveform is returned
C3_NegativeCountRaises ==
  ((IsGenerate \/ IsMix) /\ args.n_samples < 0) => outcome.kind # "ok"

\* C3 amended: a negative sampleCount is not rejected; generate returns an empty
\* waveform, and so does generateMix for non-empty frequencies with weights
\* absent or of the same length
C3_NegativeCountIsEmpty ==
  /\ (IsGenerate /\ args.n_samples < 0)
       => (outcome.kind = "ok" /\ outcome.wf = <<>>)
  /\ (IsMix /\ args.n_samples < 0 /\ Len(args.freqs) > 0 /\ WeightsFit)
       => (outcome.kind = "ok" /\ outcome.wf = <<>>)

C3_Witness ==
  /\ IsGenerate /\ args.n_samples < 0 /\ args.gain # 0
  /\ outcome.kind = "ok" /\ outcome.wf = <<>>

\* C4: for non-empty frequencies and weights of the same length, sample j of
\* the mix is (sum over i of weights[i] * w_i[j]) / sum(weights), w_i the sine
\* wave of frequencies[i] with gain 1 and phase 0
C4_WeightedAverage ==
  (IsMix /\ SuppliedFit /\ Len(args.freqs) > 0)
    => /\ outcome.kind = "ok"
       /\ \A j \in 1..Len(outcome.wf) :
            outcome.wf[j] =
              Ratio(WeightedTotal(Len(args.freqs), j)[1],
                    WeightedTotal(Len(args.freqs), j)[2] * sum(args.weights.w))

C4_Witness ==
  /\ IsMix /\ SuppliedFit /\ args.freqs = <<1, 2>> /\ args.weights.w = <<1, 2>>
  /\ args.n_samples = 2 /\ outcome.kind = "ok"
  /\ IsFinite(outcome.wf[2]) /\ outcome.wf[2][1] # 0

\* C5: sample i (0-based) of generate is gain * sin(phase + i * 2*pi * frequency
\* / sampleRate)
C5_SineFormula ==
  IsGenerate
    => \A i \in 0..(Len(outcome.wf) - 1) :
         outcome.wf[i + 1] =
           RMul(FromInt(args.gain),
                sin(args.phase + (i * 2 * pi * args.freq) \div args.sr))

C5_Witness ==
  /\ IsGenerate /\ args.n_samples = 2 /\ args.gain = 2 /\ args.phase = 1
  /\ Len(outcome.wf) = 2 /\ outcome.wf[1] = <<1, 1>> /\ outcome.wf[2] # outcome.wf[1]

\* C6: scaling all weights by the same positive k leaves the mix unchanged
C6_ScaleInvariance ==
  (IsMix /\ SuppliedFit)
    => \A k \in Scales :
         freq_based_stationary_wf(
           args.freqs,
           [given |-> TRUE, w |-> [i \in 1..Len(args.weights.w) |-> k * args.weights.w[i]]],
           args.n_samples, args.sr) = outcome

C6_Witness ==
  /\ IsMix /\ SuppliedFit /\ args.freqs = <<1, 2>> /\ args.weights.w = <<2, 1>>
  /\ args.n_samples = 2 /\ outcome.kind = "ok"
  /\ IsFinite(outcome.wf[2]) /\ outcome.wf[2][1] # 0

\* C7: omitted weights give the same result as one weight of 1 per frequency
C7_UniformWeights ==
  (IsMix /\ ~args.weights.given)
    => outcome =
         freq_based_stationary_wf(
           args.freqs,
           [given |-> TRUE, w |-> [i \in 1..Len(args.freqs) |-> 1]],
           args.n_samples, args.sr)

C7_Witness ==
  /\ IsMix /\ ~args.weights.given /\ args.freqs = <<1, 2>> /\ args.n_samples = 2
  /\ outcome.kind = "ok" /\ IsFinite(outcome.wf[2]) /\ outcome.wf[2][1] # 0

\* the mix is the arithmetic mean of the sine waves of the frequencies
IsArithmeticMean ==
  /\ outcome.kind = "ok"
  /\ Len(outcome.wf) = Len(arange(args.n_samples))
  /\ \A j \in 1..Len(outcome.wf) :
       outcome.wf[j] =
         Ratio(PlainTotal(Len(args.freqs), j)[1],
               PlainTotal(Len(args.freqs), j)[2] * Len(args.freqs))

\* C8 as stated: equal non-negative weights of the same length as the
\* (non-empty) frequencies make the mix the arithmetic mean of the sine waves
C8_EqualWeightsMean ==
  (IsMix /\ SuppliedFit /\ Len(args.freqs) > 0 /\ AllWeightsEqual
     /\ args.weights.w[1] >= 0)
    => IsArithmeticMean

\* C8 amended: equal positive weights make the mix the arithmetic mean
C8_EqualPositiveWeightsMean ==
  (IsMix /\ SuppliedFit /\ Len(args.freqs) > 0 /\ AllWeightsEqual
     /\ args.weights.w[1] > 0)
    => IsArithmeticMean

C8_Witness ==
  /\ IsMix /\ SuppliedFit /\ args.freqs = <<1, 2>> /\ args.weights.w = <<2, 2>>
  /\ args.n_samples = 2 /\ outcome.kind = "ok"
  /\ IsFinite(outcome.wf[2]) /\ outcome.wf[2][1] # 0

\* C10: weights of the right length whose total is 0 are not rejected: the
\* sines are generated and the normalisation divides by zero; the only check
\* made before normalising is the equality of the lengths
C10_ZeroTotalNotRejected ==
  /\ (IsMix /\ SuppliedFit /\ sum(args.weights.w) = 0)
       => /\ outcome.kind \in {"ok", "ZeroDivisionError"}
          /\ outcome.kind = "ok"
               => /\ outcome.nsines = Len(args.freqs)
                  /\ Len(outcome.wf) = Len(arange(args.n_samples))
                  /\ \A j \in 1..Len(outcome.wf) : ~IsFinite(outcome.wf[j])
          /\ outcome.kind = "ZeroDivisionError" => Len(args.freqs) = 0
  /\ IsMix => (outcome.kind = "AssertionError" <=> ~WeightsFit)

C10_Witness ==
  /\ IsMix /\ SuppliedFit /\ args.freqs = <<1, 2>> /\ args.weights.w = <<1, -1>>
  /\ args.n_samples = 2 /\ outcome.kind = "ok"
  /\ outcome.wf[1] = <<0, 0>> /\ outcome.wf[2][2] = 0 /\ outcome.wf[2][1] # 0

====
